---- MODULE Spec2Model ----
(***************************************************************************)
(* The streaming PKG pipeline of pkgj (src/src/pkgi_download.cpp): one     *)
(* worker runs Download::pkgi_download; the UI thread may set the           *)
(* cancellation flag at any moment.                                         *)
(*                                                                          *)
(* Bytes are modelled by their position in the served PKG stream: a file    *)
(* or the SHA-256 state is the sequence of stream intervals it received,    *)
(* each tagged with whether it went through AES-CTR and at which CTR        *)
(* offset.  Counters are integers.  TLC's integers are 32-bit, so the       *)
(* 32-bit unsigned arithmetic of the source is kept with a shorter word     *)
(* (Mod32) and the head buffer is scaled with it; every other constant is   *)
(* the source's.  64-bit quantities stay far below their wrap.              *)
(***************************************************************************)
EXTENDS Integers, Sequences, FiniteSets, TLC

(* ------------------------------ constants ------------------------------ *)

\* PKG_HEADER_SIZE + PKG_HEADER_EXT_SIZE (192 + 64)
HeadFixed == 256
\* AES_BLOCK_SIZE
AES_BLOCK_SIZE == 16
\* sizeof(item): one file-index record
ItemRecSize == 32
\* the modulus of uint32_t arithmetic, scaled from 2^32
Mod32 == 4096
\* sizeof(head), scaled with Mod32 (HeadFixed < HeadBufSize < Mod32)
HeadBufSize == 1024
\* sizeof(down)
DownBufSize == 32
\* sizeof(item_name)
ItemNameSize == 256
\* PKGI_RIF_SIZE
PKGI_RIF_SIZE == 512
\* sizeof(stat) in create_stat
StatSize == 768
\* how many times the caller may start a download of the same content
MaxSessions == 2

NoFile == "NULL"
HeadBin == "sce_sys/package/head.bin"
TailBin == "sce_sys/package/tail.bin"
StatBin == "sce_sys/package/stat.bin"
WorkBin == "sce_sys/package/work.bin"
DocumentName == "USRDIR/CONTENT/DOCUMENT.DAT"
EbootName == "USRDIR/CONTENT/EBOOT.PBP"
DocumentPath == "DOCUMENT.DAT"
EbootPath == "EBOOT.PBP"

Min(a, b) == IF a < b THEN a ELSE b

(* ------------------------------- packages ------------------------------ *)

\* One record of the file index, as download_files decodes it.
Item(no, ns, io, isz, t, n) ==
    [name_offset |-> no, name_size |-> ns, item_offset |-> io,
     item_size |-> isz, type |-> t, name |-> n]

\* One record of the meta table: type, size, the u32 at +8 and the u32 at +12.
Meta(t, s, a, b) == [type |-> t, size |-> s, v8 |-> a, v12 |-> b]

\* A served PKG: the header fields, the meta records the walk visits, the
\* index records, and the number of bytes the server holds.
Package(mg, cid, kt, mo, mt, ic, ts, eo, es, its) ==
    [magic_ok |-> mg, content_id |-> cid, key_type |-> kt, meta_offset |-> mo,
     meta |-> mt, index_count |-> ic, total_size |-> ts, enc_offset |-> eo,
     enc_size |-> es, items |-> its, served |-> ts]

AppMeta == <<Meta(2, 8, 21, 0), Meta(13, 8, 0, 128)>>
AppItems ==
    <<Item(96, 5, 128, 17, 3, "a.bin"),
      Item(101, 3, 160, 0, 4, "dir"),
      Item(104, 5, 160, 40, 3, "b.bin")>>
\* a console game: file, directory, file; 32 bytes of tail
PkgApp == Package(TRUE, 0, 2, 256, AppMeta, 3, 544, 304, 208, AppItems)

DiscMeta == <<Meta(2, 8, 6, 0), Meta(13, 8, 0, 160)>>
DiscItems ==
    <<Item(96, 24, 160, 20, 3, EbootName),
      Item(120, 8, 192, 17, 3, "JUNK.BIN"),
      Item(128, 27, 224, 16, 3, DocumentName)>>
\* a handheld disc game: EBOOT.PBP, a file to discard, DOCUMENT.DAT
PkgDisc == Package(TRUE, 0, 1, 256, DiscMeta, 3, 560, 304, 240, DiscItems)

\* the first magic is wrong
PkgBadMagic == [PkgApp EXCEPT !.magic_ok = FALSE]
\* the encrypted region starts inside the fixed header
PkgSmallEnc == [PkgApp EXCEPT !.enc_offset = 100, !.total_size = 2000, !.served = 2000]
\* the encrypted region starts beyond the head buffer
PkgHugeEnc == [PkgApp EXCEPT !.enc_offset = HeadBufSize + 16, !.total_size = 2000, !.served = 2000]
\* the meta table has no content-type record
PkgNoType == [PkgApp EXCEPT !.meta = <<Meta(13, 8, 0, 128)>>]
\* the content type is not a supported one
PkgBadType == [PkgApp EXCEPT !.meta = <<Meta(2, 8, 7, 0), Meta(13, 8, 0, 128)>>]
\* the third entry's item_offset disagrees with the stream
PkgOrder == [PkgApp EXCEPT !.items[3].item_offset = 176]
\* the same in a disc game, on the discarded entry
PkgDiscOrder == [PkgDisc EXCEPT !.items[2].item_offset = 208]
\* the first item_offset lies inside the index, and no index_size is declared
PkgShortIndex ==
    [PkgApp EXCEPT !.meta = <<Meta(2, 8, 21, 0)>>, !.items[1].item_offset = 64]
\* a key type outside 1..4
PkgBadKey == [PkgApp EXCEPT !.key_type = 5]
\* head[0xe7] holds 8, 6, 15 (key types 0, 6, 7 once masked), 3 or 12 (key
\* types 3 and 4)
PkgKeys == {[PkgApp EXCEPT !.key_type = b] : b \in {8, 6, 15, 3, 12}}
\* the last entry is of the skipped type: its 16 bytes are read by download_tail
PkgSkip ==
    [PkgApp EXCEPT !.items[3] = Item(104, 5, 160, 16, 18, "b.bin"),
                   !.enc_size = 176, !.total_size = 496, !.served = 496]

\* a console game whose names lie in [96, 368) of the encrypted region; the
\* first entry's name is at `no` and of size `ns`
PkgNamed(no, ns) ==
    Package(TRUE, 0, 2, 256, <<Meta(2, 8, 21, 0), Meta(13, 8, 0, 368)>>, 3, 784,
            304, 448,
            <<Item(no, ns, 368, 17, 3, "a.bin"),
              Item(352, 3, 400, 0, 4, "dir"),
              Item(355, 5, 400, 40, 3, "b.bin")>>)

\* names of 255 and of 256 bytes, a name beyond total_size, and a name within
\* total_size that starts beyond the first item_offset
PkgNames ==
    {PkgNamed(96, 255), PkgNamed(96, 256), PkgNamed(700, 5), PkgNamed(400, 5)}

\* a name within total_size that lies beyond the head buffer
PkgFarName ==
    [PkgNamed(HeadBufSize, 5) EXCEPT !.total_size = 2000, !.served = 2000]

\* an index_count whose product with the record size wraps to that of 3 records
PkgWrap == [PkgNamed(96, 5) EXCEPT !.index_count = (Mod32 \div ItemRecSize) + 3]

\* the server holds 16 bytes more than total_size announces
PkgLong == [PkgApp EXCEPT !.served = 560]

Packages ==
    {PkgApp, PkgLong, PkgDisc, PkgBadMagic, PkgSmallEnc, PkgHugeEnc, PkgNoType,
     PkgBadType, PkgOrder, PkgDiscOrder, PkgShortIndex, PkgBadKey, PkgSkip,
     PkgWrap, PkgFarName}
        \cup PkgKeys \cup PkgNames

\* What an index record decodes to when it is read from bytes of the head
\* buffer that hold no index record.
GarbageItems == {Item(0, 0, 0, 16, 3, "junk"), Item(0, 0, 0, 0, 18, "junk")}

\* What a name decodes to when it is copied from bytes of the head buffer
\* that download_head did not read.
GarbageNames == {"junk", "a.bin"}

\* The RIF the caller supplies: none, or one carrying a content id.
NoRif == [present |-> FALSE, content_id |-> 0]
Rifs == {NoRif, [present |-> TRUE, content_id |-> 0], [present |-> TRUE, content_id |-> 1]}

\* The digest the caller supplies: none, the SHA-256 of the served stream,
\* or another value.
Digests == {"none", "good", "bad"}

\* The content_type member before anything is assigned to it, and the values
\* its first read may then give.
Indeterminate == 0 - 1
UninitContentTypes == {0, 6}

Paths ==
    {HeadBin, TailBin, StatBin, WorkBin, DocumentPath, EbootPath,
     "a.bin", "dir", "b.bin", "JUNK.BIN", DocumentName, EbootName, "junk"}

(* ------------------------------- the state ----------------------------- *)

VARIABLES
    pkg, rif, digest,           \* the inputs of the session
    session, prev_offset,       \* session number; download_offset at the last cancellation
    pc, canceled, outcome, err, \* worker position, the flag, how the session ended
    download_offset, download_size,
    http,                       \* the Http object: open, position, offset given to start
    sha,                        \* the intervals fed to the running SHA-256
    disk,                       \* the files and directories under root
    item_file,                  \* the handle create_file stored last, or NULL
    open_files,                 \* the files created and not yet closed
    item_path, item_name,
    head_size, head_offset, target_size,
    parsed, key,                \* header fields read; the derived AES key
    content_type, index_size,
    index, item,                \* download_files' loop variable and decoded record
    encrypted_base, encrypted_offset, decrypted_size, encrypted_size,
    item_start,                 \* download_offset when the current entry started
    last_call,                  \* the last download_data call and what it did
    ipc,                        \* position of the running install.cpp function
    iframe,                     \* its arguments and locals
    ifs,                        \* ux0:pkgj, ux0:patch and ux0:rePatch for the title
    idb,                        \* app.db, the sqlite3 handle and the statement
    ilog,                       \* the calls made on the file system and on sqlite
    iret                        \* what the function returned or threw

vars ==
    <<pkg, rif, digest, session, prev_offset, pc, canceled, outcome, err,
      download_offset, download_size, http, sha, disk, item_file, open_files,
      item_path,
      item_name, head_size, head_offset, target_size, parsed, key,
      content_type, index_size, index, item, encrypted_base,
      encrypted_offset, decrypted_size, encrypted_size, item_start, last_call,
      ipc, iframe, ifs, idb, ilog, iret>>

\* the header fields, valid once parsed
meta_offset == pkg.meta_offset
meta_count == Len(pkg.meta)
index_count == pkg.index_count
total_size == pkg.total_size
enc_offset == pkg.enc_offset
enc_size == pkg.enc_size

(* --------------------------- streams and files ------------------------- *)

\* `n` stream bytes from position `lo`; dec: they went through aes128_ctr,
\* at CTR stream offset `ctr` for the first of them.
Chunk(lo, n, dec, ctr) ==
    [src |-> "pkg", lo |-> lo, hi |-> lo + n, dec |-> dec, ctr |-> ctr]

\* `n` bytes that are not of the stream: zeros ("zero"), the RIF ("rif")
Blob(what, n) == [src |-> what, lo |-> 0, hi |-> n, dec |-> FALSE, ctr |-> 0]

Follows(a, b) ==
    /\ a.src = "pkg" /\ b.src = "pkg"
    /\ a.hi = b.lo
    /\ a.dec = b.dec
    /\ a.dec => b.ctr = a.ctr + (a.hi - a.lo)

\* the byte sequence `data` followed by chunk `c`
Extend(data, c) ==
    IF c.hi = c.lo THEN data
    ELSE IF Len(data) > 0 /\ Follows(data[Len(data)], c)
         THEN [data EXCEPT ![Len(data)].hi = c.hi]
         ELSE Append(data, c)

RECURSIVE ByteCount(_)
ByteCount(data) ==
    IF data = <<>> THEN 0
    ELSE (Head(data).hi - Head(data).lo) + ByteCount(Tail(data))

\* the stream bytes [lo, hi) as served
Raw(lo, hi) == IF hi > lo THEN <<Chunk(lo, hi - lo, FALSE, 0)>> ELSE <<>>

Absent == [kind |-> "none", data |-> <<>>]
EmptyFile == [kind |-> "file", data |-> <<>>]
Directory == [kind |-> "dir", data |-> <<>>]
FileOf(data) == [kind |-> "file", data |-> data]

\* sha256_init
sha256_init == <<>>

\* sha256_update(&sha, buffer, read)
sha256_update(s, c) == Extend(s, c)

\* the open files once pkgi_create(path) has returned a handle
pkgi_create(files, path) == files \cup {path}

\* a close that releases nothing
pkgi_close_Leaks(files, file) == files

\* the open files once the scope guard, or download_files, has run
\* "if (item_file) pkgi_close(item_file)"
pkgi_close(files, file) == files \ {file}

\* pkgi_write(item_file, buffer, write)
pkgi_write(d, file, c) ==
    [d EXCEPT ![file] = FileOf(Extend(d[file].data, c))]

(* ----------------------------- download_data --------------------------- *)

NoCall ==
    [made |-> FALSE, canceled |-> FALSE, size |-> 0, encrypted |-> FALSE,
     save |-> FALSE, ret |-> 0, wrote |-> 0, pos |-> 0, ctr |-> 0,
     started |-> FALSE, progress |-> FALSE, thrown |-> "none"]

\* a download_data that calls update_progress() before it polls the flag
CanceledCall_Progress(call) == [call EXCEPT !.canceled = TRUE, !.progress = TRUE]

\* what a call that finds the flag set has done when it returns 0
CanceledCall(call) == [call EXCEPT !.canceled = TRUE]

HttpClosed == [open |-> FALSE, pos |-> 0, start_at |-> 0]

\* What the transport and the file system may do during one call.
Fates == {"full", "half", "length_unknown", "read_error", "closed", "write_error"}

\* a download_data that polls the flag only once the stream is open
is_canceled_late == canceled /\ http.open

\* is_canceled(): the flag as download_data polls it
is_canceled == canceled

\* a download_data that writes, and counts, all the bytes read
WriteLen_Read(encrypted, read) == read

\* min64(decrypted_size, read) in download_data's save branch
WriteLen(encrypted, read) ==
    IF encrypted THEN Min(decrypted_size, read) ELSE read

\* a download_data that hashes only what it saves
Hashed_SavedOnly(encrypted, save, pos, read) ==
    Chunk(pos, IF save THEN read ELSE 0, FALSE, 0)

\* what `buffer` holds when download_data hands it to sha256_update: the
\* `read` bytes that arrived at stream position `pos`, not yet decrypted
Hashed(encrypted, save, pos, read) == Chunk(pos, read, FALSE, 0)

\* an aes128_ctr call that is given the offset inside the item only
CtrOffset_NoBase(base, offset) == offset

\* the stream offset download_data gives aes128_ctr
CtrOffset(base, offset) == base + offset

\* what int Http::read(buffer, size) returns
HttpRead(h, size, fate) ==
    LET avail == pkg.served - h.pos
        most == Min(size, avail)
    IN  IF fate = "read_error" THEN 0 - 1
        ELSE IF fate = "closed" \/ most <= 0 THEN 0
        ELSE IF fate = "half" /\ most > 1 THEN most \div 2
        ELSE most

\* Download::download_data(buffer, size, encrypted, save) under `fate`, with
\* `room` bytes between `buffer` and the end of the array it points into.
\* The result holds the return value, the error thrown ("none" if none) and
\* the members as the call leaves them.
download_data(size, room, encrypted, save, fate) ==
    LET same ==
            [ret |-> 0, thrown |-> "none", download_offset |-> download_offset,
             download_size |-> download_size, http |-> http, sha |-> sha,
             encrypted_offset |-> encrypted_offset,
             decrypted_size |-> decrypted_size, disk |-> disk,
             call |-> CanceledCall([NoCall EXCEPT !.made = TRUE,
                         !.size = size, !.encrypted = encrypted, !.save = save,
                         !.pos = http.pos])]
        starting == ~http.open
        h1 == IF starting
              THEN [open |-> TRUE, pos |-> download_offset, start_at |-> download_offset]
              ELSE http
        http_length == IF fate = "length_unknown" THEN 0 - 1 ELSE pkg.served - h1.pos
        size1 == IF starting THEN http_length + download_offset ELSE download_size
        read == HttpRead(h1, size, fate)
        ctr == CtrOffset(encrypted_base, encrypted_offset)
        write == WriteLen(encrypted, read)
        opened ==
            [same EXCEPT !.http = h1, !.download_size = size1,
                         !.call.canceled = FALSE, !.call.started = starting,
                         !.call.progress = TRUE, !.call.pos = h1.pos]
        fed ==
            [opened EXCEPT
                !.ret = read,
                !.download_offset = download_offset + read,
                !.http.pos = h1.pos + read,
                !.sha = sha256_update(sha, Hashed(encrypted, save, h1.pos, read)),
                !.encrypted_offset =
                    IF encrypted THEN encrypted_offset + read ELSE encrypted_offset,
                !.decrypted_size =
                    IF save /\ encrypted THEN decrypted_size - write ELSE decrypted_size,
                !.call.ret = read,
                !.call.ctr = IF encrypted THEN ctr ELSE 0]
    IN  IF is_canceled THEN same
        ELSE IF starting /\ http_length < 0
        THEN [same EXCEPT !.http = h1, !.thrown = "http length unknown",
                          !.call.canceled = FALSE, !.call.started = TRUE,
                          !.call.progress = TRUE,
                          !.call.thrown = "http length unknown"]
        ELSE IF read < 0
        THEN [opened EXCEPT !.thrown = "http error", !.call.thrown = "http error"]
        ELSE IF read = 0
        THEN [opened EXCEPT !.thrown = "connection closed",
                            !.call.thrown = "connection closed"]
        ELSE IF read > room
        THEN [fed EXCEPT !.thrown = "buffer overrun", !.call.thrown = "buffer overrun"]
        ELSE IF ~save THEN fed
        ELSE IF fate = "write_error"
        THEN [fed EXCEPT !.thrown = "cannot write", !.call.thrown = "cannot write"]
        ELSE [fed EXCEPT
                !.disk = pkgi_write(disk, item_file,
                                    Chunk(h1.pos, write, encrypted,
                                          IF encrypted THEN ctr ELSE 0)),
                !.call.wrote = write]

\* the fates that differ from one another at this call
FatesNow(save) ==
    {f \in Fates : /\ (f = "length_unknown" => ~http.open)
                   /\ (f = "write_error" => save)}

\* the members a download_data call assigns
Assign(r) ==
    /\ download_offset' = r.download_offset
    /\ download_size' = r.download_size
    /\ http' = r.http
    /\ sha' = r.sha
    /\ encrypted_offset' = r.encrypted_offset
    /\ decrypted_size' = r.decrypted_size
    /\ disk' = r.disk
    /\ last_call' = r.call

\* A phase leaves (return or throw): its scope guard closes item_file, and
\* pkgi_download returns the phase's 0 or lets the error through.
Leave(how, why) ==
    /\ pc' = "done"
    /\ outcome' = how
    /\ err' = why
    /\ item_file' = NoFile
    /\ open_files' = pkgi_close(open_files, item_file)
    /\ prev_offset' = IF how = "ret0" THEN download_offset' ELSE 0

\* a phase that returns 0 when download_data throws
LeaveAfter_Swallowed(r) ==
    IF r.thrown = "buffer overrun" THEN Leave("undefined", r.thrown)
    ELSE Leave("ret0", "none")

\* how a download_data call that did not return a positive count ends the phase
LeaveAfter(r) ==
    IF r.thrown = "buffer overrun" THEN Leave("undefined", r.thrown)
    ELSE IF r.thrown # "none" THEN Leave("error", r.thrown)
    ELSE Leave("ret0", "none")

Stay(p) ==
    /\ pc' = p
    /\ UNCHANGED <<outcome, err, prev_offset>>

inputs == <<pkg, rif, digest, session>>
installvars == <<ipc, iframe, ifs, idb, ilog, iret>>
headvars == <<head_size, head_offset, target_size, parsed, key, content_type, index_size>>
itemvars == <<index, item, encrypted_base, encrypted_size, item_start, item_path, item_name>>

(* ------------------------------ pkgi_download -------------------------- *)

\* the Download object before pkgi_download is called
DownloadInit ==
    /\ pkg \in Packages
    /\ rif \in Rifs
    /\ digest \in Digests
    /\ session = 1
    /\ prev_offset = 0
    /\ pc = "idle"
    /\ canceled = FALSE
    /\ outcome = "running"
    /\ err = "none"
    /\ download_offset = 0
    /\ download_size = 0
    /\ http = HttpClosed
    /\ sha = sha256_init
    /\ disk = [p \in Paths |-> Absent]
    /\ item_file = NoFile
    /\ open_files = {}
    /\ item_path = ""
    /\ item_name = ""
    /\ head_size = 0
    /\ head_offset = 0
    /\ target_size = 0
    /\ parsed = FALSE
    /\ key = "none"
    /\ content_type = Indeterminate
    /\ index_size = 0
    /\ index = 0
    /\ item = Item(0, 0, 0, 0, 0, "")
    /\ encrypted_base = 0
    /\ encrypted_offset = 0
    /\ decrypted_size = 0
    /\ encrypted_size = 0
    /\ item_start = 0
    /\ last_call = NoCall

\* The UI thread sets the cancellation flag while the worker runs.
Cancel ==
    /\ pc \notin {"idle", "done"}
    /\ ~canceled
    /\ canceled' = TRUE
    /\ UNCHANGED <<pkg, rif, digest, session, prev_offset, pc, outcome, err,
                   download_offset, download_size, http, sha, disk, item_file,
                   open_files,
                   item_path, item_name, head_size, head_offset, target_size,
                   parsed, key, content_type, index_size, index, item,
                   encrypted_base, encrypted_offset, decrypted_size,
                   encrypted_size, item_start, last_call, installvars>>

\* how Download::create_file may go
CreateFates == {"created", "no folder", "no file"}

\* the disk after create_file's pkgi_mkdirs and pkgi_create of `path`
create_file(d, path, fate) ==
    IF fate = "created" THEN [d EXCEPT ![path] = EmptyFile] ELSE d

\* pkgi_download's initialisation, then download_head up to its first read loop
Start ==
    /\ pc = "idle"
    /\ download_size' = 0
    /\ download_offset' = 0
    /\ sha' = sha256_init
    /\ index' = 0 - 1
    /\ item_name' = "Preparing..."
    /\ item_path' = HeadBin
    /\ \E fate \in CreateFates :
        /\ disk' = create_file(disk, HeadBin, fate)
        /\ IF fate = "created"
           THEN /\ item_file' = HeadBin
                /\ open_files' = pkgi_create(open_files, HeadBin)
                /\ Stay("head_fixed")
           ELSE Leave("error", fate)
    /\ head_size' = HeadFixed
    /\ head_offset' = 0
    /\ UNCHANGED <<installvars, inputs, canceled, http, target_size, parsed, key, content_type,
                   index_size, item, encrypted_base, encrypted_offset,
                   decrypted_size, encrypted_size, item_start, last_call>>

\* first loop of download_head: read the fixed header into head
HeadFixedRead ==
    /\ pc = "head_fixed"
    /\ head_offset # head_size
    /\ \E fate \in FatesNow(TRUE) :
        LET r == download_data(head_size - head_offset, HeadBufSize - head_offset,
                               FALSE, TRUE, fate)
        IN  /\ Assign(r)
            /\ IF r.ret <= 0 \/ r.thrown # "none"
               THEN LeaveAfter(r) /\ UNCHANGED head_offset
               ELSE /\ head_offset' = head_offset + r.ret
                    /\ Stay("head_fixed")
                    /\ UNCHANGED <<item_file, open_files>>
    /\ UNCHANGED <<installvars, inputs, canceled, head_size, target_size, parsed, key,
                   content_type, index_size, itemvars>>

\* a download_head that compares no byte of the RIF
RifMatches_Skipped == TRUE

\* pkgi_memequ(rif + 0x10, head + 0x30, 0x30)
RifMatches == rif.content_id = pkg.content_id

\* a ladder that takes pkg_vita_3 for key types 3 and 4 alike
KeyFor_NoVita4(k) ==
    CASE k = 1 -> "pkg_psp_key"
      [] k = 2 -> "aes(pkg_vita_2, iv)"
      [] k \in {3, 4} -> "aes(pkg_vita_3, iv)"
      [] OTHER -> "none"

\* the key download_head derives for key type k ("none": invalid key type)
KeyFor(k) ==
    CASE k = 1 -> "pkg_psp_key"
      [] k = 2 -> "aes(pkg_vita_2, iv)"
      [] k = 3 -> "aes(pkg_vita_3, iv)"
      [] k = 4 -> "aes(pkg_vita_4, iv)"
      [] OTHER -> "none"

\* (uint32_t) of a non-negative value
U32(x) == x % Mod32

\* download_head between its first and its second read loop: the magics, the
\* RIF, the header fields, the first bound check, the key
HeadParse ==
    /\ pc = "head_fixed"
    /\ head_offset = head_size
    /\ IF ~pkg.magic_ok
       THEN Leave("error", "bad pkg header") /\ UNCHANGED <<parsed, key, target_size>>
       ELSE IF rif.present /\ ~RifMatches
       THEN Leave("error", "rif content id mismatch")
            /\ UNCHANGED <<parsed, key, target_size>>
       ELSE /\ parsed' = TRUE
            /\ IF enc_offset > HeadBufSize
               THEN Leave("error", "head too large") /\ UNCHANGED <<key, target_size>>
               ELSE IF KeyFor(pkg.key_type % 8) = "none"
               THEN Leave("error", "invalid key type") /\ UNCHANGED <<key, target_size>>
               ELSE /\ key' = KeyFor(pkg.key_type % 8)
                    /\ target_size' = U32(enc_offset)
                    /\ Stay("head_meta")
                    /\ UNCHANGED <<item_file, open_files>>
    /\ UNCHANGED <<installvars, inputs, canceled, download_offset, download_size, http, sha,
                   disk, head_size, head_offset, content_type, index_size,
                   itemvars, encrypted_offset, decrypted_size, last_call>>

\* one iteration of a loop "while (head_size != target_size)" of download_head
HeadGrow(at) ==
    /\ pc = at
    /\ head_size # target_size
    /\ \E fate \in FatesNow(TRUE) :
        LET r == download_data(U32(target_size - head_size), HeadBufSize - head_size,
                               FALSE, TRUE, fate)
        IN  /\ Assign(r)
            /\ IF r.ret <= 0 \/ r.thrown # "none"
               THEN LeaveAfter(r) /\ UNCHANGED head_size
               ELSE /\ head_size' = U32(head_size + r.ret)
                    /\ Stay(at)
                    /\ UNCHANGED <<item_file, open_files>>
    /\ UNCHANGED <<installvars, inputs, canceled, head_offset, target_size, parsed, key,
                   content_type, index_size, itemvars>>

\* second loop of download_head: up to enc_offset
HeadMetaRead == HeadGrow("head_meta")

\* third loop of download_head: the file index
HeadIndexRead == HeadGrow("head_index")

\* fourth loop of download_head: up to the first item
HeadNamesRead == HeadGrow("head_names")

\* The meta walk of download_head from record i at `offset`: the error it
\* throws ("none" if none) and the content_type and index_size it leaves.
RECURSIVE MetaWalk(_, _, _, _)
MetaWalk(i, offset, ct, isz) ==
    IF i >= meta_count THEN [thrown |-> "none", content_type |-> ct, index_size |-> isz]
    ELSE IF U32(offset + 16) >= enc_offset
    THEN [thrown |-> "pkg too small or corrupt", content_type |-> ct, index_size |-> isz]
    ELSE LET m == pkg.meta[i + 1]
             next == U32(offset + 8 + m.size)
         IN  IF m.type = 2
             THEN IF m.v8 # 21 /\ m.v8 # 22 /\ m.v8 # 6
                  THEN [thrown |-> "unsupported package type",
                        content_type |-> m.v8, index_size |-> isz]
                  ELSE MetaWalk(i + 1, next, m.v8, isz)
             ELSE IF m.type = 13
             THEN MetaWalk(i + 1, next, ct, m.v12)
             ELSE MetaWalk(i + 1, next, ct, isz)

\* the values a read of content_type gives
ValuesOf(ct) == IF ct = Indeterminate THEN UninitContentTypes ELSE {ct}

\* download_head between its second and its third read loop
HeadMetaWalk ==
    /\ pc = "head_meta"
    /\ head_size = target_size
    /\ LET w == MetaWalk(0, meta_offset, content_type, 0)
           t == U32(enc_offset + U32(index_count * ItemRecSize))
       IN  /\ content_type' \in ValuesOf(w.content_type)
           /\ index_size' = w.index_size
           /\ IF w.thrown # "none"
              THEN Leave("error", w.thrown) /\ UNCHANGED target_size
              ELSE /\ target_size' = t
                   /\ IF t > HeadBufSize
                      THEN Leave("error", "head too large")
                      ELSE Stay("head_index") /\ UNCHANGED <<item_file, open_files>>
    /\ UNCHANGED <<installvars, inputs, canceled, download_offset, download_size, http, sha,
                   disk, head_size, head_offset, parsed, key, itemvars,
                   encrypted_offset, decrypted_size, last_call>>

\* whether head[from, from + len) holds bytes download_head read
Buffered(from, len) == from + len <= head_size

\* what the index record i decodes to
IndexRecords(i) ==
    IF i < Len(pkg.items) /\ Buffered(enc_offset + ItemRecSize * i, ItemRecSize)
    THEN {pkg.items[i + 1]}
    ELSE GarbageItems

\* download_head between its third and its fourth read loop
HeadIndexDone ==
    /\ pc = "head_index"
    /\ head_size = target_size
    /\ \E first \in IndexRecords(0) :
        LET item_offset == first.item_offset
            t == U32(enc_offset + item_offset)
        IN  IF index_size # 0 /\ item_offset # index_size
            THEN Leave("error", "index size mismatch") /\ UNCHANGED target_size
            ELSE /\ target_size' = t
                 /\ IF t > HeadBufSize
                    THEN Leave("error", "head too large")
                    ELSE Stay("head_names") /\ UNCHANGED <<item_file, open_files>>
    /\ UNCHANGED <<installvars, inputs, canceled, download_offset, download_size, http, sha,
                   disk, head_size, head_offset, parsed, key, content_type,
                   index_size, itemvars, encrypted_offset, decrypted_size,
                   last_call>>

\* download_head returns 1: its scope guard closes head.bin; download_files starts
HeadDone ==
    /\ pc = "head_names"
    /\ head_size = target_size
    /\ item_file' = NoFile
    /\ open_files' = pkgi_close(open_files, item_file)
    /\ index' = 0
    /\ Stay("files")
    /\ UNCHANGED <<installvars, inputs, canceled, download_offset, download_size, http, sha,
                   disk, headvars, item, encrypted_base, encrypted_size,
                   item_start, item_path, item_name, encrypted_offset,
                   decrypted_size, last_call>>

(* ------------------------------ download_files ------------------------ *)

\* (item_size + AES_BLOCK_SIZE - 1) & ~(AES_BLOCK_SIZE - 1)
EncryptedSize(item_size) ==
    ((item_size + AES_BLOCK_SIZE - 1) \div AES_BLOCK_SIZE) * AES_BLOCK_SIZE

\* a download_files that gives every entry of a disc game its file
ItemPath_All(ct, name) == name

\* The item_path download_files composes for an entry named `name` (relative
\* to root); "" when the entry is read and discarded.
ItemPath(ct, name) ==
    IF ct = 6
    THEN IF name = DocumentName THEN DocumentPath
         ELSE IF name = EbootName THEN EbootPath
         ELSE ""
    ELSE name

\* pkgi_mkdirs(item_path)
pkgi_mkdirs(d, path) ==
    IF d[path].kind = "none" THEN [d EXCEPT ![path] = Directory] ELSE d

\* the checks download_files makes between create_file and the read loop
OrderCheck(rec) ==
    IF enc_offset + rec.item_offset + 0 # download_offset THEN "file ordering"
    ELSE IF enc_offset + rec.item_offset + rec.item_size > total_size
    THEN "pkg too small or corrupt"
    ELSE "none"

\* download_files from the top of its for loop to the entry's first read
\* a download_files that only tests the name against total_size
NameRefused_NoSizeTest(rec) ==
    enc_offset + rec.name_offset + rec.name_size > total_size

\* the test download_files makes before it copies the name of an entry
NameRefused(rec) ==
    \/ rec.name_size > ItemNameSize - 1
    \/ enc_offset + rec.name_offset + rec.name_size > total_size

\* what the name of entry `rec` decodes to once copied out of the head buffer
ItemNames(rec) ==
    IF Buffered(enc_offset + rec.name_offset, rec.name_size)
    THEN {rec.name}
    ELSE GarbageNames

\* whether [from, from + len) lies outside the head array
BeyondHead(from, len) == from + len > HeadBufSize

\* whether the reads download_files makes for entry i leave the head array
ReadsBeyondHead(i) ==
    \/ BeyondHead(enc_offset + ItemRecSize * i, ItemRecSize)
    \/ \E rec \in IndexRecords(i) :
          /\ ~NameRefused(rec)
          /\ BeyondHead(enc_offset + rec.name_offset, rec.name_size)

FilesEntry ==
    /\ pc = "files"
    /\ index < index_count
    /\ \/ /\ ReadsBeyondHead(index)
          /\ Leave("undefined", "read beyond head")
          /\ UNCHANGED <<disk, index, item, item_name, item_path,
                         encrypted_base, encrypted_offset, decrypted_size,
                         encrypted_size, item_start>>
       \/ \E rec \in IndexRecords(index), fate \in CreateFates :
          \E name \in ItemNames(rec) :
        LET path == ItemPath(content_type, name)
        IN  IF NameRefused(rec)
            THEN /\ Leave("error", "pkg too small or corrupt")
                 /\ UNCHANGED <<disk, index, item, item_name, item_path,
                                encrypted_base, encrypted_offset, decrypted_size,
                                encrypted_size, item_start>>
            ELSE /\ item' = rec
                 /\ item_name' = name
                 /\ encrypted_size' = EncryptedSize(rec.item_size)
                 /\ decrypted_size' = rec.item_size
                 /\ encrypted_base' = rec.item_offset
                 /\ encrypted_offset' = 0
                 /\ item_start' = download_offset
                 /\ item_path' = IF path = "" THEN item_path ELSE path
                 /\ IF path = ""
                    THEN /\ Stay("files_drain")
                         /\ UNCHANGED <<disk, index, item_file, open_files>>
                    ELSE IF rec.type = 4
                    THEN /\ disk' = pkgi_mkdirs(disk, path)
                         /\ index' = index + 1
                         /\ Stay("files")
                         /\ UNCHANGED <<item_file, open_files>>
                    ELSE IF rec.type = 18
                    THEN /\ index' = index + 1
                         /\ Stay("files")
                         /\ UNCHANGED <<disk, item_file, open_files>>
                    ELSE /\ disk' = create_file(disk, path, fate)
                         /\ UNCHANGED index
                         /\ IF fate # "created" THEN Leave("error", fate)
                            ELSE IF OrderCheck(rec) # "none"
                            THEN Leave("error", OrderCheck(rec))
                            ELSE /\ item_file' = path
                                 /\ open_files' = pkgi_create(open_files, path)
                                 /\ Stay("files_item")
    /\ UNCHANGED <<installvars, inputs, canceled, download_offset, download_size, http, sha,
                   headvars, last_call>>

\* one iteration of a read loop of download_files
FilesRead(at, save) ==
    /\ pc = at
    /\ encrypted_offset # encrypted_size
    /\ \E fate \in FatesNow(save) :
        LET r == download_data(Min(DownBufSize, encrypted_size - encrypted_offset),
                               DownBufSize, TRUE, save, fate)
        IN  /\ Assign(r)
            /\ IF r.ret <= 0 \/ r.thrown # "none"
               THEN LeaveAfter(r)
               ELSE Stay(at) /\ UNCHANGED <<item_file, open_files>>
    /\ UNCHANGED <<installvars, inputs, canceled, headvars, itemvars>>

\* the loop that reads and discards an entry of a content_type 6 package
FilesDrainRead == FilesRead("files_drain", FALSE)

\* the loop that reads an entry into its file
FilesItemRead == FilesRead("files_item", TRUE)

\* the discarded entry is read: continue
FilesDrainDone ==
    /\ pc = "files_drain"
    /\ encrypted_offset = encrypted_size
    /\ index' = index + 1
    /\ Stay("files")
    /\ UNCHANGED <<installvars, inputs, canceled, download_offset, download_size, http, sha,
                   disk, item_file, open_files, headvars, item, encrypted_base,
                   encrypted_size, item_start, item_path, item_name,
                   encrypted_offset, decrypted_size, last_call>>

\* the entry's file is read: pkgi_close, next entry
FilesItemDone ==
    /\ pc = "files_item"
    /\ encrypted_offset = encrypted_size
    /\ item_file' = NoFile
    /\ open_files' = pkgi_close(open_files, item_file)
    /\ index' = index + 1
    /\ Stay("files")
    /\ UNCHANGED <<installvars, inputs, canceled, download_offset, download_size, http, sha,
                   disk, headvars, item, encrypted_base, encrypted_size,
                   item_start, item_path, item_name, encrypted_offset,
                   decrypted_size, last_call>>

\* download_files returns 1; download_tail creates tail.bin
FilesDone ==
    /\ pc = "files"
    /\ index >= index_count
    /\ index' = 0 - 1
    /\ item_name' = "Finishing..."
    /\ item_path' = TailBin
    /\ \E fate \in CreateFates :
        /\ disk' = create_file(disk, TailBin, fate)
        /\ IF fate = "created"
           THEN /\ item_file' = TailBin
                /\ open_files' = pkgi_create(open_files, TailBin)
                /\ Stay("tail_skip")
           ELSE Leave("error", fate)
    /\ UNCHANGED <<installvars, inputs, canceled, download_offset, download_size, http, sha,
                   headvars, item, encrypted_base, encrypted_size, item_start,
                   encrypted_offset, decrypted_size, last_call>>

(* ------------------------------ download_tail -------------------------- *)

tail_offset == enc_offset + enc_size

\* min64(sizeof(down), to - download_offset) on unsigned 64-bit values
TailRequest(to) ==
    IF to >= download_offset THEN Min(DownBufSize, to - download_offset)
    ELSE DownBufSize

TailRead(at, to, save) ==
    /\ pc = at
    /\ \E fate \in FatesNow(save) :
        LET r == download_data(TailRequest(to), DownBufSize, FALSE, save, fate)
        IN  /\ Assign(r)
            /\ IF r.ret <= 0 \/ r.thrown # "none"
               THEN LeaveAfter(r)
               ELSE Stay(at) /\ UNCHANGED <<item_file, open_files>>
    /\ UNCHANGED <<installvars, inputs, canceled, headvars, itemvars>>

\* first loop of download_tail: up to the end of the encrypted region
TailSkipRead == download_offset < tail_offset /\ TailRead("tail_skip", tail_offset, FALSE)

TailSkipDone ==
    /\ pc = "tail_skip"
    /\ ~(download_offset < tail_offset)
    /\ Stay("tail_copy")
    /\ UNCHANGED <<installvars, inputs, canceled, download_offset, download_size, http, sha,
                   disk, item_file, open_files, headvars, itemvars, encrypted_offset,
                   decrypted_size, last_call>>

\* second loop of download_tail: up to total_size
TailCopyRead ==
    download_offset # total_size /\ TailRead("tail_copy", total_size, content_type # 6)

\* a pkgi_download that calls create_stat for every content type
NeedsStat_Always(ct) == TRUE

\* pkgi_download's test before create_stat
NeedsStat(ct) == ct # 6

\* download_tail returns 1; pkgi_download goes on
TailDone ==
    /\ pc = "tail_copy"
    /\ download_offset = total_size
    /\ item_file' = NoFile
    /\ open_files' = pkgi_close(open_files, item_file)
    /\ Stay(IF NeedsStat(content_type) THEN "stat" ELSE "integrity")
    /\ UNCHANGED <<installvars, inputs, canceled, download_offset, download_size, http, sha,
                   disk, headvars, itemvars, encrypted_offset, decrypted_size,
                   last_call>>

(* ------------------- create_stat, check_integrity, create_rif ---------- *)

SaveFates == {"saved", "cannot save"}

\* pkgi_save(path, data, size)
pkgi_save(d, path, bytes, fate) ==
    IF fate = "saved" THEN [d EXCEPT ![path] = FileOf(<<bytes>>)] ELSE d

\* pkgi_rm(path)
pkgi_rm(d, path) == [d EXCEPT ![path] = Absent]

CreateStat ==
    /\ pc = "stat"
    /\ \E fate \in SaveFates :
        /\ disk' = pkgi_save(disk, StatBin, Blob("zero", StatSize), fate)
        /\ IF fate = "saved"
           THEN Stay("integrity") /\ UNCHANGED <<item_file, open_files>>
           ELSE Leave("error", fate)
    /\ UNCHANGED <<installvars, inputs, canceled, download_offset, download_size, http, sha,
                   headvars, itemvars, encrypted_offset, decrypted_size, last_call>>

\* pkgi_memequ(digest, check, SHA256_DIGEST_SIZE): "good" is the SHA-256 of
\* the whole served stream, "bad" that of no stream the pipeline hashes
DigestMatches == digest = "good" /\ sha = Raw(0, pkg.served)

\* a check_integrity that removes the whole staging directory
IntegrityDisk_Wipe(d) ==
    IF digest # "none" /\ ~DigestMatches THEN [p \in Paths |-> Absent] ELSE d

\* what check_integrity does to the disk
IntegrityDisk(d) ==
    IF digest # "none" /\ ~DigestMatches THEN pkgi_rm(d, HeadBin) ELSE d

CheckIntegrity ==
    /\ pc = "integrity"
    /\ disk' = IntegrityDisk(disk)
    /\ IF digest # "none" /\ ~DigestMatches
       THEN Leave("error", "integrity mismatch")
       ELSE IF rif.present
       THEN Stay("rif") /\ UNCHANGED <<item_file, open_files>>
       ELSE Leave("ret1", "none")
    /\ UNCHANGED <<installvars, inputs, canceled, download_offset, download_size, http, sha,
                   headvars, itemvars, encrypted_offset, decrypted_size, last_call>>

CreateRif ==
    /\ pc = "rif"
    /\ \E fate \in SaveFates :
        /\ disk' = pkgi_save(disk, WorkBin, Blob("rif", PKGI_RIF_SIZE), fate)
        /\ IF fate = "saved" THEN Leave("ret1", "none") ELSE Leave("error", fate)
    /\ UNCHANGED <<installvars, inputs, canceled, download_offset, download_size, http, sha,
                   headvars, itemvars, encrypted_offset, decrypted_size, last_call>>

(* --------------------------------- sessions ---------------------------- *)

\* The caller starts the download of the same content again, with a new
\* Download object (Download::Download) and the flag cleared; the staging
\* directory is as the last session left it.
Restart ==
    /\ pc = "done"
    /\ outcome = "ret0"
    /\ session < MaxSessions
    /\ session' = session + 1
    /\ pc' = "idle"
    /\ canceled' = FALSE
    /\ outcome' = "running"
    /\ err' = "none"
    /\ download_offset' = 0
    /\ download_size' = 0
    /\ http' = HttpClosed
    /\ sha' = sha256_init
    /\ item_file' = NoFile
    /\ item_path' = ""
    /\ item_name' = ""
    /\ head_size' = 0
    /\ head_offset' = 0
    /\ target_size' = 0
    /\ parsed' = FALSE
    /\ key' = "none"
    /\ content_type' = Indeterminate
    /\ index_size' = 0
    /\ index' = 0
    /\ item' = Item(0, 0, 0, 0, 0, "")
    /\ encrypted_base' = 0
    /\ encrypted_offset' = 0
    /\ decrypted_size' = 0
    /\ encrypted_size' = 0
    /\ item_start' = 0
    /\ last_call' = NoCall
    /\ UNCHANGED <<pkg, rif, digest, prev_offset, disk, open_files, installvars>>

(* -------------------------------- install.cpp -------------------------- *)

\* the variables of the Download object, its inputs and its staging directory
downloadvars ==
    <<pkg, rif, digest, session, prev_offset, pc, canceled, outcome, err,
      download_offset, download_size, http, sha, disk, item_file, open_files,
      item_path,
      item_name, head_size, head_offset, target_size, parsed, key,
      content_type, index_size, index, item, encrypted_base,
      encrypted_offset, decrypted_size, encrypted_size, item_start, last_call>>

\* A content id in three parts: 7 characters, the 9 of the title id, the rest.
ContentIds ==
    {<<"EP9000-", "PCSF00001", "_00-PATCH00000001">>,
     <<"UP1004-", "PCSE00002", "_00-PATCH00000002">>}

\* fmt::format("{:.9}", contentid + 7)
TitleIdOf(contentid) == contentid[2]

\* A package directory: whether it exists, whether it holds
\* sce_sys/param.sfo, and the APP_VER of that file ("" when it has none).
NoDir == [there |-> FALSE, sfo |-> FALSE, app_ver |-> ""]
DirWith(sfo, v) == [there |-> TRUE, sfo |-> sfo, app_ver |-> v]

\* what ux0:pkgj/<contentid> may be when pkgi_install_update is called
StagedDirs ==
    {NoDir, DirWith(FALSE, ""), DirWith(TRUE, ""), DirWith(TRUE, "01.05"),
     DirWith(TRUE, "1.5"), DirWith(TRUE, "01.050")}

\* what ux0:patch/<titleid> may be then
PatchDirs == {NoDir, DirWith(TRUE, "01.00")}

\* ux0:rePatch/<titleid>: the two sidecar files and the other files
NoSidecar == [there |-> FALSE, data |-> ""]
Sidecar(v) == [there |-> TRUE, data |-> v]
NoRePatch == [there |-> FALSE, base |-> NoSidecar, patch |-> NoSidecar, files |-> 0]

\* tbl_appinfo: val by (titleId, key)
AppVerKey == "3168212510"
OtherKey == "566916785"
InstalledVersions == {"01.00", "01.04"}
RowsWith(v) ==
    [r \in {TitleIdOf(c) : c \in ContentIds} \X {AppVerKey, OtherKey} |-> v]

\* UPDATE tbl_appinfo SET val = ? WHERE titleId = ? AND key = 3168212510
UpdateAppInfo(rows, val, titleid) ==
    [r \in DOMAIN rows |->
        IF r[1] = titleid /\ r[2] = AppVerKey THEN val ELSE rows[r]]

\* app.db, raw_appdb (the handle sqlite3_open produced), whether _sqliteDb
\* owns it, stmt, and whether the scope guard on stmt is registered
NoDb(v) ==
    [rows |-> RowsWith(v), handle |-> "none", owned |-> FALSE, stmt |-> "none",
     guard |-> FALSE]

\* Leaving pkgi_install_update's scope: the guard, declared last, finalizes
\* the statement; then _sqliteDb's deleter closes the handle it holds.
Unwound(db) ==
    LET d == IF db.guard THEN [db EXCEPT !.stmt = "finalized"] ELSE db
    IN  IF db.owned THEN [d EXCEPT !.handle = "closed"] ELSE d

UnwindCalls(db) ==
    (IF db.guard THEN <<"finalize">> ELSE <<>>)
        \o (IF db.owned THEN <<"close">> ELSE <<>>)

\* pkgi_install_update returns ("ok") or throws, after the calls `log`
UpdLeave(db, log, result) ==
    /\ ipc' = "u_done"
    /\ idb' = Unwound(db)
    /\ ilog' = log \o UnwindCalls(db)
    /\ iret' = result

\* pkgi_mkdirs("ux0:patch"); pkgi_delete_dir(dest)
UpdDelete ==
    /\ ipc = "u_entry"
    /\ ifs' = [ifs EXCEPT !.patch = NoDir]
    /\ ilog' = ilog \o <<"mkdirs", "delete">>
    /\ ipc' = "u_rename"
    /\ UNCHANGED <<downloadvars, iframe, idb, iret>>

RenameFates == {"renamed", "refused"}

\* sceIoRename(src, dest) and the test of its result
UpdRename ==
    /\ ipc = "u_rename"
    /\ \E fate \in RenameFates :
        LET res == IF ifs.staged.there /\ ~ifs.patch.there /\ fate = "renamed"
                   THEN 0 ELSE 0 - 1
        IN  IF res < 0
            THEN /\ UpdLeave(idb, Append(ilog, "rename"), "cannot rename")
                 /\ UNCHANGED <<ifs, iframe>>
            ELSE /\ ifs' = [ifs EXCEPT !.patch = ifs.staged, !.staged = NoDir]
                 /\ iframe' = [iframe EXCEPT !.renamed = TRUE]
                 /\ ilog' = Append(ilog, "rename")
                 /\ ipc' = "u_version"
                 /\ UNCHANGED <<idb, iret>>
    /\ UNCHANGED downloadvars

\* a version test that only refuses the empty string
VersionAccepted_NonEmpty(version) == version # ""

\* the two tests on APP_VER: not empty, and of size 5
VersionAccepted(version) == version # "" /\ Len(version) = 5

\* pkgi_load of the moved param.sfo, pkgi_sfo_get_string, the tests on it
UpdVersion ==
    /\ ipc = "u_version"
    /\ LET version == ifs.patch.app_ver
           log == Append(ilog, "load")
       IN  IF ~ifs.patch.sfo
           THEN UpdLeave(idb, log, "cannot load") /\ UNCHANGED iframe
           ELSE /\ iframe' = [iframe EXCEPT !.version = version]
                /\ IF VersionAccepted(version)
                   THEN /\ ilog' = log
                        /\ ipc' = "u_open"
                        /\ UNCHANGED <<idb, iret>>
                   ELSE UpdLeave(idb, log, "bad version")
    /\ UNCHANGED <<downloadvars, ifs>>

\* SQLITE_CHECK(call, errstr): throws unless `call` returned SQLITE_OK
SqliteCheckThrows(rc) == rc # "SQLITE_OK"

OpenFates == {"opened", "failed", "no memory"}

\* what sqlite3_open returns, and the handle it stores in raw_appdb
sqlite3_open(fate) ==
    CASE fate = "opened" -> [rc |-> "SQLITE_OK", handle |-> "open"]
      [] fate = "failed" -> [rc |-> "SQLITE_CANTOPEN", handle |-> "open"]
      [] OTHER -> [rc |-> "SQLITE_NOMEM", handle |-> "none"]

\* sqlite3_open under SQLITE_CHECK, then _sqliteDb.reset(raw_appdb)
UpdOpen ==
    /\ ipc = "u_open"
    /\ \E fate \in OpenFates :
        LET res == sqlite3_open(fate)
            log == Append(ilog, "open")
        IN  IF SqliteCheckThrows(res.rc)
            THEN UpdLeave([idb EXCEPT !.handle = res.handle], log,
                          "can't open app.db database")
            ELSE /\ idb' = [idb EXCEPT !.handle = res.handle, !.owned = TRUE]
                 /\ ilog' = log
                 /\ ipc' = "u_prepare"
                 /\ UNCHANGED iret
    /\ UNCHANGED <<downloadvars, iframe, ifs>>

PrepareFates == {"prepared", "failed"}

\* sqlite3_prepare_v2 under SQLITE_CHECK, then the scope guard on stmt
UpdPrepare ==
    /\ ipc = "u_prepare"
    /\ \E fate \in PrepareFates :
        LET log == Append(ilog, "prepare")
            rc == IF fate = "prepared" THEN "SQLITE_OK" ELSE "SQLITE_ERROR"
        IN  IF SqliteCheckThrows(rc)
            THEN UpdLeave(idb, log, "can't prepare version update SQL statement")
            ELSE /\ idb' = [idb EXCEPT !.stmt = "prepared", !.guard = TRUE]
                 /\ ilog' = log
                 /\ ipc' = "u_step"
                 /\ UNCHANGED iret
    /\ UNCHANGED <<downloadvars, iframe, ifs>>

StepFates == {"done", "busy"}

\* the two sqlite3_bind_text, sqlite3_step and the test of its result
UpdStep ==
    /\ ipc = "u_step"
    /\ \E fate \in StepFates :
        LET log == Append(ilog, "step")
            titleid == TitleIdOf(iframe.contentid)
        IN  IF fate = "done"
            THEN UpdLeave([idb EXCEPT !.rows =
                              UpdateAppInfo(idb.rows, iframe.version, titleid)],
                          log, "ok")
            ELSE UpdLeave(idb, log, "cannot execute")
    /\ UNCHANGED <<downloadvars, iframe, ifs>>

\* the calls of pkgi_install_comppack one run makes, at most
MaxCalls == 3

\* the versions the caller declares
PackVersions == {"1.0", "2.0"}

\* A .ppk archive: whether it holds files named base_comppack_version and
\* patch_comppack_version (their content then is "0.9").
Archives == [sidecars : BOOLEAN]

\* pkgi_load(path): the bytes of the file, or an exception when it is not there
pkgi_load(file) ==
    IF file.there THEN [thrown |-> FALSE, data |-> file.data]
    ELSE [thrown |-> TRUE, data |-> ""]

\* the lambdas of pkgi_get_comppack_versions: the file as a string, the empty
\* string when pkgi_load throws
ReadSidecar(file) ==
    LET r == pkgi_load(file) IN IF r.thrown THEN "" ELSE r.data

\* pkgi_get_comppack_versions(titleid), of the directory of that title
pkgi_get_comppack_versions(dir) ==
    [what |-> "versions", present |-> dir.there,
     base |-> ReadSidecar(dir.base), patch |-> ReadSidecar(dir.patch)]

\* pkgi_install_comppack returned (what = "ok") or threw
Returned(what) == [what |-> what, present |-> FALSE, base |-> "", patch |-> ""]

\* the record of a finished pkgi_install_comppack call
CallOf(frame, ok) ==
    [patch |-> frame.patch, version |-> frame.version,
     sidecars |-> frame.archive.sidecars, ok |-> ok]

\* the caller calls pkgi_install_comppack(titleid, patch, version)
CompCall ==
    /\ ipc = "c_idle"
    /\ Len(ilog) < MaxCalls
    /\ \E patch \in BOOLEAN, version \in PackVersions, archive \in Archives :
        iframe' = [iframe EXCEPT !.patch = patch, !.version = version,
                                 !.archive = archive]
    /\ ipc' = "c_entry"
    /\ UNCHANGED <<downloadvars, ifs, idb, ilog, iret>>

\* an install that never deletes the directory
DeletesFirst_Never(patch) == FALSE

\* if (!patch) pkgi_delete_dir(dest)
DeletesFirst(patch) == ~patch

\* pkgi_install_comppack up to pkgi_mkdirs(dest)
CompPrepare ==
    /\ ipc = "c_entry"
    /\ LET kept == IF DeletesFirst(iframe.patch) THEN NoRePatch ELSE ifs.repatch
       IN  ifs' = [ifs EXCEPT !.repatch = [kept EXCEPT !.there = TRUE]]
    /\ ipc' = "c_extract"
    /\ UNCHANGED <<downloadvars, iframe, idb, ilog, iret>>

ExtractFates == {"extracted", "bad archive"}

\* pkgi_extract_zip(src, dest)
CompExtract ==
    /\ ipc = "c_extract"
    /\ \E fate \in ExtractFates :
        IF fate = "extracted"
        THEN /\ ifs' = [ifs EXCEPT
                    !.repatch.files = 1,
                    !.repatch.base =
                        IF iframe.archive.sidecars THEN Sidecar("0.9") ELSE @,
                    !.repatch.patch =
                        IF iframe.archive.sidecars THEN Sidecar("0.9") ELSE @]
             /\ ipc' = "c_save"
             /\ UNCHANGED <<ilog, iret>>
        ELSE /\ ipc' = "c_idle"
             /\ iret' = Returned("cannot extract")
             /\ ilog' = Append(ilog, CallOf(iframe, FALSE))
             /\ UNCHANGED ifs
    /\ UNCHANGED <<downloadvars, iframe, idb>>

\* pkgi_save of the sidecar named after `patch`
CompSave ==
    /\ ipc = "c_save"
    /\ \E fate \in SaveFates :
        IF fate = "saved"
        THEN /\ ifs' = IF iframe.patch
                       THEN [ifs EXCEPT !.repatch.patch = Sidecar(iframe.version)]
                       ELSE [ifs EXCEPT !.repatch.base = Sidecar(iframe.version)]
             /\ iret' = Returned("ok")
             /\ ilog' = Append(ilog, CallOf(iframe, TRUE))
        ELSE /\ iret' = Returned("cannot save")
             /\ ilog' = Append(ilog, CallOf(iframe, FALSE))
             /\ UNCHANGED ifs
    /\ ipc' = "c_idle"
    /\ UNCHANGED <<downloadvars, iframe, idb>>

\* the caller calls pkgi_get_comppack_versions(titleid)
CompGet ==
    /\ ipc = "c_idle"
    /\ iret' = pkgi_get_comppack_versions(ifs.repatch)
    /\ UNCHANGED <<downloadvars, ipc, iframe, ifs, idb, ilog>>


(* ---------------------------- specifications --------------------------- *)

\* no function of install.cpp is running
NoInstall ==
    /\ ipc = "none"
    /\ iframe = <<>>
    /\ ifs = <<>>
    /\ idb = <<>>
    /\ ilog = <<>>
    /\ iret = "none"

Init == DownloadInit /\ NoInstall

Next ==
    \/ Cancel
    \/ Start
    \/ HeadFixedRead
    \/ HeadParse
    \/ HeadMetaRead
    \/ HeadMetaWalk
    \/ HeadIndexRead
    \/ HeadIndexDone
    \/ HeadNamesRead
    \/ HeadDone
    \/ FilesEntry
    \/ FilesDrainRead
    \/ FilesDrainDone
    \/ FilesItemRead
    \/ FilesItemDone
    \/ FilesDone
    \/ TailSkipRead
    \/ TailSkipDone
    \/ TailCopyRead
    \/ TailDone
    \/ CreateStat
    \/ CheckIntegrity
    \/ CreateRif

\* one call of pkgi_download, for every package, RIF and digest
Spec == Init /\ [][Next]_vars

\* one call of pkgi_install_update, for every staged and installed directory
InitUpdate ==
    /\ DownloadInit /\ pkg = PkgApp /\ rif = NoRif /\ digest = "none"
    /\ ipc = "u_entry"
    /\ iframe \in [contentid : ContentIds, version : {""}, renamed : {FALSE}]
    /\ ifs \in [staged : StagedDirs, patch : PatchDirs, repatch : {NoRePatch}]
    /\ idb \in {NoDb(v) : v \in InstalledVersions}
    /\ ilog = <<>>
    /\ iret = "none"

NextUpdate ==
    \/ UpdDelete
    \/ UpdRename
    \/ UpdVersion
    \/ UpdOpen
    \/ UpdPrepare
    \/ UpdStep

SpecUpdate == InitUpdate /\ [][NextUpdate]_vars

\* calls of pkgi_install_comppack and pkgi_get_comppack_versions for one title
InitCompPack ==
    /\ DownloadInit /\ pkg = PkgApp /\ rif = NoRif /\ digest = "none"
    /\ ipc = "c_idle"
    /\ iframe \in [titleid : {TitleIdOf(c) : c \in ContentIds}, patch : {FALSE},
                   version : {""}, archive : {[sidecars |-> FALSE]}]
    /\ ifs = [staged |-> NoDir, patch |-> NoDir, repatch |-> NoRePatch]
    /\ idb = NoDb("01.00")
    /\ ilog = <<>>
    /\ iret = Returned("none")

NextCompPack ==
    \/ CompCall
    \/ CompPrepare
    \/ CompExtract
    \/ CompSave
    \/ CompGet

SpecCompPack == InitCompPack /\ [][NextCompPack]_vars

\* a download of a package that can complete, restarted after cancellations
InitResume == Init /\ pkg \in {PkgApp, PkgDisc, PkgSkip}
NextResume == Next \/ Restart
SpecResume == InitResume /\ [][NextResume]_vars

(* -------------------------------- properties --------------------------- *)

\* the worker's next step is a download_data call
ReadPending ==
    \/ pc = "head_fixed" /\ head_offset # head_size
    \/ pc \in {"head_meta", "head_index", "head_names"} /\ head_size # target_size
    \/ pc \in {"files_drain", "files_item"} /\ encrypted_offset # encrypted_size
    \/ pc = "tail_skip" /\ download_offset < tail_offset
    \/ pc = "tail_copy" /\ download_offset # total_size

\* download_head has returned 1
HeadReturned ==
    \/ pc \in {"files", "files_drain", "files_item", "tail_skip", "tail_copy",
               "stat", "integrity", "rif"}
    \/ outcome = "ret1"

\* C1: every byte an HTTP read returned has been fed to the SHA-256 once, in
\* arrival order and undecrypted, whatever the encrypted and save flags of
\* the call; when pkgi_download returns 1 the hashed bytes are the stream
\* bytes [0, total_size) and download_offset = total_size.
C1_ShaCoversStream ==
    /\ http.open => sha = Raw(http.start_at, http.pos)
    /\ ~http.open => sha = <<>>
    /\ outcome = "ret1" => sha = Raw(0, total_size) /\ download_offset = total_size

\* a disc game completed: entries were read unsaved and decrypted, and hashed
C1_Witness ==
    /\ outcome = "ret1"
    /\ content_type = 6
    /\ disk["JUNK.BIN"].kind = "none"
    /\ sha = Raw(0, total_size)

\* C2 (as claimed): a session restarted after a cancellation at
\* download_offset = X, 0 < X < total_size, opens the HTTP stream at X.
C2_ResumeOpensAtOffset ==
    (session > 1 /\ pc # "done" /\ http.open /\ 0 < prev_offset /\ prev_offset < total_size)
        => http.start_at = prev_offset

\* C3 (as claimed): when the session fails with the file ordering error, no
\* file exists on disk for the entry.
C3_NoFileOnOrderError ==
    err = "file ordering" => disk[item_path].kind = "none"

\* C4: in a content_type 6 session the only item paths that come to exist are
\* DOCUMENT.DAT and EBOOT.PBP, each for the entry of that name; any other
\* entry has ceil(item_size/16)*16 bytes read, hashed and decrypted, with no
\* file open and nothing written.
C4_DiscFilter ==
    content_type = 6 =>
        /\ \A p \in Paths \ {HeadBin, TailBin, StatBin, WorkBin, DocumentPath, EbootPath} :
              disk[p].kind = "none"
        /\ pc = "files_item" =>
              \/ item_file = DocumentPath /\ item.name = DocumentName
              \/ item_file = EbootPath /\ item.name = EbootName
        /\ (HeadReturned /\ item_path = DocumentPath /\ disk[DocumentPath].kind # "none")
              => \E i \in 1..Len(pkg.items) : pkg.items[i].name = DocumentName
        /\ pc = "files_drain" =>
              /\ item.name \notin {DocumentName, EbootName}
              /\ item_file = NoFile
              /\ encrypted_offset = download_offset - item_start
              /\ encrypted_offset > 0 =>
                    /\ last_call.encrypted
                    /\ last_call.wrote = 0
                    /\ last_call.ctr + last_call.ret = encrypted_base + encrypted_offset
              /\ sha = Raw(0, download_offset)
              /\ encrypted_offset = encrypted_size =>
                    download_offset - item_start = ((item.item_size + 15) \div 16) * 16

\* a disc game completed with its two files and without the third
C4_Witness ==
    /\ outcome = "ret1"
    /\ content_type = 6
    /\ disk[DocumentPath].kind = "file"
    /\ disk[EbootPath].kind = "file"
    /\ disk["JUNK.BIN"].kind = "none"
    /\ download_offset = total_size

\* C5: while an entry is read into its file, decrypted_size is never negative
\* and falls by the bytes written; each call writes min(read, decrypted_size);
\* when the entry is complete ceil(item_size/16)*16 bytes were read,
\* item_size bytes were written and decrypted_size is 0.
C5_PaddingTruncation ==
    pc = "files_item" =>
        /\ decrypted_size >= 0
        /\ ByteCount(disk[item_file].data) + decrypted_size = item.item_size
        /\ encrypted_offset = download_offset - item_start
        /\ encrypted_offset > 0 =>
              last_call.wrote = Min(last_call.ret, decrypted_size + last_call.wrote)
        /\ encrypted_offset = encrypted_size =>
              /\ download_offset - item_start = ((item.item_size + 15) \div 16) * 16
              /\ ByteCount(disk[item_file].data) = item.item_size
              /\ decrypted_size = 0

\* a 17-byte entry is complete: 32 bytes read, 17 written
C5_Witness ==
    /\ pc = "files_item"
    /\ encrypted_offset = encrypted_size
    /\ item.item_size = 17
    /\ download_offset - item_start = 32
    /\ ByteCount(disk[item_file].data) = 17

\* C6 (as claimed): a session in which the flag was set returns 0.
C6_CancelAlwaysReturns0 ==
    (pc = "done" /\ canceled) => outcome = "ret0"

\* C6 (amended): a download_data call made while the flag is set ends the
\* session with pkgi_download returning 0 and no error; no later phase runs
\* and nothing under root is created, changed or deleted.
C6_CancelAtRead ==
    [][(canceled /\ ReadPending) =>
          /\ pc' = "done"
          /\ outcome' = "ret0"
          /\ err' = "none"
          /\ disk' = disk
          /\ item_file' = NoFile
          /\ download_offset' = download_offset]_vars

\* a session cancelled after the head was staged, head.bin kept
C6_Witness ==
    /\ outcome = "ret0"
    /\ last_call.canceled
    /\ download_offset > HeadFixed
    /\ disk[HeadBin].kind = "file"
    /\ disk[StatBin].kind = "none"
    /\ disk[WorkBin].kind = "none"

\* C7: check_integrity, when a digest is supplied and differs from the final
\* SHA-256, deletes head.bin, leaves every other file as it is and raises;
\* otherwise it changes nothing on disk and raises nothing.
C7_DigestCheck ==
    [][(pc = "integrity" /\ pc' # "integrity") =>
          IF digest = "bad" \/ (digest = "good" /\ sha # Raw(0, pkg.served))
          THEN /\ disk' = [disk EXCEPT ![HeadBin] = Absent]
               /\ outcome' = "error"
               /\ err' = "integrity mismatch"
          ELSE /\ disk' = disk
               /\ outcome' # "error"
               /\ err' = "none"]_vars

\* the digest did not match: head.bin is gone, the item files are there
C7_Witness ==
    /\ err = "integrity mismatch"
    /\ disk[HeadBin].kind = "none"
    /\ disk["a.bin"].kind = "file"
    /\ disk["b.bin"].kind = "file"
    /\ ByteCount(disk["b.bin"].data) = 40

\* C8 (as claimed): at each read loop of download_head that follows the
\* fixed header, head_size <= target_size <= sizeof(head).
C8_HeadReadsInBuffer ==
    pc \in {"head_meta", "head_index", "head_names"} =>
        head_size <= target_size /\ target_size <= HeadBufSize

\* C9 (as claimed): once download_head has returned 1, content_type is 6, 21
\* or 22 and the meta table gave it.
C9_SupportedType ==
    HeadReturned =>
        /\ content_type \in {6, 21, 22}
        /\ \E i \in 1..Len(pkg.meta) : pkg.meta[i].type = 2

\* C10: with a RIF whose content id differs from the header's, download_head
\* never reads past the fixed header nor parses a field, and raises once the
\* 256 bytes are read; without a RIF, or with a matching one, no content-id
\* error is raised.
C10_ContentIdGuard ==
    /\ (rif.present /\ rif.content_id # pkg.content_id) =>
          /\ download_offset <= HeadFixed
          /\ ~parsed
          /\ pc \in {"idle", "head_fixed", "done"}
          /\ (pc = "done" /\ download_offset = HeadFixed /\ last_call.thrown = "none"
                /\ ~last_call.canceled)
                => (outcome = "error" /\
                    err = IF pkg.magic_ok THEN "rif content id mismatch"
                          ELSE "bad pkg header")
    /\ (~rif.present \/ rif.content_id = pkg.content_id) =>
          err # "rif content id mismatch"

\* a RIF of another content: rejected after exactly 256 bytes
C10_Witness ==
    /\ err = "rif content id mismatch"
    /\ download_offset = HeadFixed
    /\ http.pos = HeadFixed
    /\ ~parsed

\* C11: with k = head[0xe7] & 7, the CTR context is initialised with
\* pkg_psp_key for k = 1 and with the AES-128 encryption of the header IV
\* under pkg_vita_2 / 3 / 4 for k = 2 / 3 / 4; for k in {0, 5, 6, 7} a
\* download_head that reaches the ladder raises "invalid key type" with no
\* CTR context initialised and no byte read beyond the fixed header.
C11_KeyLadder ==
    LET k == pkg.key_type % 8
        reached == parsed /\ enc_offset <= HeadBufSize
    IN  /\ (reached /\ pc # "head_fixed" /\ k = 1) => key = "pkg_psp_key"
        /\ (reached /\ pc # "head_fixed" /\ k = 2) => key = "aes(pkg_vita_2, iv)"
        /\ (reached /\ pc # "head_fixed" /\ k = 3) => key = "aes(pkg_vita_3, iv)"
        /\ (reached /\ pc # "head_fixed" /\ k = 4) => key = "aes(pkg_vita_4, iv)"
        /\ (reached /\ pc # "head_fixed" /\ k \in {0, 5, 6, 7}) =>
               /\ pc = "done" /\ outcome = "error" /\ err = "invalid key type"
               /\ key = "none"
               /\ download_offset = HeadFixed
               /\ sha = Raw(0, HeadFixed)
        /\ err = "invalid key type" => k \in {0, 5, 6, 7}
        /\ ~reached => key = "none"

\* a header whose byte 0xe7 is 8 was refused for its key type 0
C11_Witness ==
    /\ pkg.key_type = 8
    /\ pc = "done" /\ err = "invalid key type"
    /\ download_offset = HeadFixed
\* the calls of pkgi_install_update in the order of its text
UpdateCalls == <<"mkdirs", "delete", "rename", "load", "open", "prepare", "step">>

\* the call `what` has been made
Called(what) == \E i \in 1..Len(ilog) : ilog[i] = what

\* C12: pkgi_install_update deletes ux0:patch/<titleid>, renames the staged
\* directory to it, reads APP_VER from the moved param.sfo and runs the UPDATE
\* of the row (titleid, 3168212510), in this order; the database is opened,
\* and the UPDATE run, only after a successful rename and with an APP_VER of
\* length 5; otherwise the function throws and the database is never opened.
C12_UpdateSequence ==
    LET calls == SelectSeq(ilog, LAMBDA e : e \notin {"finalize", "close"})
        target == <<TitleIdOf(iframe.contentid), AppVerKey>>
        admitted ==
            /\ iframe.renamed
            /\ ifs.patch.there /\ ifs.patch.sfo
            /\ Len(ifs.patch.app_ver) = 5
    IN  ipc # "none" =>
        /\ Len(calls) <= Len(UpdateCalls)
        /\ calls = SubSeq(UpdateCalls, 1, Len(calls))
        /\ Called("open") => admitted
        /\ (ipc = "u_done" /\ ~admitted) =>
               /\ iret \notin {"ok", "none"}
               /\ ~Called("open")
               /\ idb.handle = "none"
               /\ \E v \in InstalledVersions : idb.rows = RowsWith(v)
        /\ (ipc = "u_done" /\ iret = "ok") =>
               /\ Called("step")
               /\ idb.rows[target] = ifs.patch.app_ver
               /\ \E v \in InstalledVersions :
                      \A r \in DOMAIN idb.rows \ {target} : idb.rows[r] = v
               /\ ~ifs.staged.there

\* an update of version 01.05 was installed over an older patch
C12_Witness ==
    /\ ipc = "u_done" /\ iret = "ok"
    /\ ilog = UpdateCalls \o <<"finalize", "close">>
    /\ idb.rows[<<TitleIdOf(iframe.contentid), AppVerKey>>] = "01.05"

\* C13: when pkgi_install_update has returned or thrown, the handle that
\* sqlite3_open produced is closed and the prepared statement is finalized,
\* the statement before the handle.
C13_DbReleased ==
    ipc = "u_done" =>
        /\ idb.handle # "open"
        /\ idb.stmt # "prepared"
        /\ \A i, j \in 1..Len(ilog) :
               (ilog[i] = "finalize" /\ ilog[j] = "close") => i < j
\* what the calls of `log` leave to read: the version of the last base
\* install, and of the last patch install after it
ExpectedVersions(log) ==
    LET bases == {i \in 1..Len(log) : ~log[i].patch}
        lastb == IF bases = {} THEN 0
                 ELSE CHOOSE i \in bases : \A j \in bases : j <= i
        patches == {i \in 1..Len(log) : log[i].patch /\ i > lastb}
        lastp == IF patches = {} THEN 0
                 ELSE CHOOSE i \in patches : \A j \in patches : j <= i
    IN  [what |-> "versions", present |-> TRUE,
         base |-> IF lastb = 0 THEN "" ELSE log[lastb].version,
         patch |-> IF lastp = 0 THEN "" ELSE log[lastp].version]

\* every call so far returned, and no archive held a sidecar file
AllSuccessful(log) == \A i \in 1..Len(log) : log[i].ok /\ ~log[i].sidecars

\* C14: after successful pkgi_install_comppack calls for a title, with
\* archives holding no sidecar file, pkgi_get_comppack_versions gives present,
\* the version of the last base install, and the version of the last patch
\* install made after it ("" when there is none: a missing sidecar reads as
\* the empty string and nothing is thrown).
C14_CompPackRoundTrip ==
    (ipc = "c_idle" /\ ilog # <<>> /\ AllSuccessful(ilog)) =>
        /\ pkgi_get_comppack_versions(ifs.repatch) = ExpectedVersions(ilog)
        /\ iret.what = "versions" => iret = ExpectedVersions(ilog)

\* a patch pack 1.0, then a base pack 2.0: the patch version read back is empty
C14_Witness ==
    /\ ipc = "c_idle" /\ Len(ilog) = 2 /\ AllSuccessful(ilog)
    /\ ilog[1].patch /\ ilog[1].version = "1.0"
    /\ ~ilog[2].patch /\ ilog[2].version = "2.0"
    /\ iret = [what |-> "versions", present |-> TRUE, base |-> "2.0", patch |-> ""]
\* C15: whenever download_files processes an index entry, of any type and
\* content type, download_offset was enc_offset + item_offset when the
\* processing of the entry started (a session where it was not has failed
\* with "file ordering" and reads no byte of the entry).
C15_EntryAtItsOffset ==
    (pc \in {"files", "files_drain", "files_item"} /\ item.name # "") =>
        item_start = enc_offset + item.item_offset
\* C16: check_integrity runs before create_stat and create_rif: when the
\* session has failed with "integrity mismatch", neither stat.bin nor
\* work.bin has been written.
C16_NothingFinalisedOnMismatch ==
    err = "integrity mismatch" =>
        /\ disk[StatBin] = Absent
        /\ disk[WorkBin] = Absent
\* C17: at most one file is open, and it is the one item_file points to;
\* no file is open once download_head, download_files or download_tail has
\* exited (by return 1, return 0 or an error), nor in download_files between
\* two entries: the file of an entry is closed before the next is created.
C17_OneOpenFile ==
    /\ Cardinality(open_files) <= 1
    /\ open_files = IF item_file = NoFile THEN {} ELSE {item_file}
    /\ pc \in {"idle", "files", "stat", "integrity", "rif", "done"} =>
           item_file = NoFile /\ open_files = {}

\* the third entry's file is the open one, the first entry's file is on disk
C17_Witness ==
    /\ pc = "files_item" /\ index = 2
    /\ open_files = {"b.bin"}
    /\ disk["a.bin"].kind = "file" /\ ByteCount(disk["a.bin"].data) = 17
    /\ ByteCount(disk["b.bin"].data) > 0
\* C18: a download_data call made while the cancellation flag is set returns
\* 0 and changes nothing: the HTTP stream is neither started nor read, the
\* progress callback is not invoked, download_offset, download_size,
\* encrypted_offset, decrypted_size and the SHA-256 state keep their values,
\* and nothing is written.
C18_CanceledCallIsInert ==
    [][(canceled /\ ReadPending) =>
          /\ last_call'.made /\ last_call'.canceled
          /\ last_call'.ret = 0 /\ last_call'.thrown = "none"
          /\ ~last_call'.started /\ ~last_call'.progress
          /\ last_call'.wrote = 0
          /\ http' = http
          /\ download_offset' = download_offset
          /\ download_size' = download_size
          /\ encrypted_offset' = encrypted_offset
          /\ decrypted_size' = decrypted_size
          /\ sha' = sha
          /\ disk' = disk]_vars

\* a call made with the flag set in the middle of an item whose file is open
C18_Witness ==
    /\ last_call.made /\ last_call.canceled /\ last_call.ret = 0
    /\ last_call.encrypted /\ last_call.save
    /\ encrypted_offset > 0 /\ encrypted_offset < encrypted_size
    /\ outcome = "ret0"
\* the files of the package's entries
ContentPaths == Paths \ {HeadBin, TailBin, StatBin, WorkBin}

\* C19: every byte in an entry's file went through aes128_ctr at the stream
\* offset item_offset + k, k being the number of the entry's bytes read
\* before it, and that offset is the byte's position in the PKG stream minus
\* enc_offset.
C19_DecryptedAtItemOffset ==
    /\ \A p \in ContentPaths :
          LET d == disk[p].data
          IN  d # <<>> =>
                /\ Len(d) = 1
                /\ d[1].src = "pkg" /\ d[1].dec
                /\ d[1].ctr = d[1].lo - enc_offset
                /\ \E i \in 1..Len(pkg.items) :
                      /\ \E name \in ItemNames(pkg.items[i]) :
                            ItemPath(content_type, name) = p
                      /\ d[1].ctr = pkg.items[i].item_offset
    /\ (pc = "files_item" /\ disk[item_file].data # <<>>) =>
          /\ encrypted_base = item.item_offset
          /\ disk[item_file].data[1].ctr = encrypted_base
          /\ disk[item_file].data[1].hi - disk[item_file].data[1].lo
                = Min(encrypted_offset, item.item_size)

\* the 40 bytes of the third entry, decrypted at the offsets from 160 on
C19_Witness ==
    /\ pc = "files_item" /\ index = 2 /\ item.item_offset = 160
    /\ encrypted_offset = encrypted_size
    /\ disk["b.bin"].data = <<Chunk(enc_offset + 160, 40, TRUE, 160)>>
\* download_tail has returned 1
TailReturned == pc \in {"stat", "integrity", "rif"} \/ outcome = "ret1"

\* C20: download_tail reads and hashes the stream up to total_size; for
\* content_type other than 6, tail.bin receives exactly the stream bytes
\* [enc_offset + enc_size, total_size), in order and undecrypted; for
\* content_type 6 nothing of the tail is written and there is no tail.bin.
C20_TailPhase ==
    TailReturned =>
        /\ download_offset = total_size
        /\ sha = Raw(0, total_size)
        /\ content_type # 6 => disk[TailBin] = FileOf(Raw(tail_offset, total_size))
        /\ content_type = 6 => disk[TailBin] = Absent
\* C21: when pkgi_download has returned 1, stat.bin has been written, as 768
\* zero bytes, if and only if content_type is not 6, and work.bin has been
\* written, as the bytes of the RIF, if and only if a RIF was supplied.
C21_FinalisationFiles ==
    outcome = "ret1" =>
        /\ disk[StatBin] = IF content_type # 6
                           THEN FileOf(<<Blob("zero", 768)>>) ELSE Absent
        /\ disk[WorkBin] = IF rif.present
                           THEN FileOf(<<Blob("rif", PKGI_RIF_SIZE)>>) ELSE Absent

\* a disc game downloaded with a RIF: work.bin and no stat.bin
C21_Witness ==
    /\ outcome = "ret1" /\ content_type = 6 /\ rif.present
    /\ disk[WorkBin].kind = "file" /\ disk[StatBin] = Absent
\* the errors download_data raises for the transport
TransportErrors == {"http length unknown", "http error", "connection closed"}

\* C22: a download_data call that meets a negative HTTP length, a negative
\* read result or a read result of 0 raises with download_offset, the SHA-256
\* state, encrypted_offset and the files unchanged; the error ends
\* pkgi_download and no later phase runs. The stream is started by the first
\* call that finds the flag clear, at download_offset, and never again.
C22_TransportFailuresFatal ==
    [][/\ (ReadPending /\ ~canceled /\ ~canceled') =>
             /\ last_call'.made /\ ~last_call'.canceled
             /\ last_call'.started = ~http.open
             /\ http'.open
             /\ http'.start_at =
                    IF http.open THEN http.start_at ELSE download_offset
             /\ last_call'.thrown \in TransportErrors =>
                    /\ last_call'.ret = 0
                    /\ download_offset' = download_offset
                    /\ sha' = sha
                    /\ encrypted_offset' = encrypted_offset
                    /\ decrypted_size' = decrypted_size
                    /\ disk' = disk
                    /\ pc' = "done" /\ outcome' = "error"
                    /\ err' = last_call'.thrown
             /\ last_call'.ret <= 0 => last_call'.thrown # "none"
       /\ http.open => http'.open /\ http'.start_at = http.start_at
       /\ err \in TransportErrors => UNCHANGED vars]_vars

\* the connection was closed in the middle of an entry: the bytes written
\* so far are kept, nothing was finalised
C22_Witness ==
    /\ pc = "done" /\ outcome = "error" /\ err = "connection closed"
    /\ last_call.thrown = "connection closed" /\ last_call.save
    /\ encrypted_offset > 0 /\ encrypted_offset < encrypted_size
    /\ disk[StatBin] = Absent /\ disk[WorkBin] = Absent
\* C23 (as claimed): an entry download_files has accepted has
\* name_size < sizeof(item_name) - 1 and its name ends within total_size.
C23_NameBoundStrict ==
    (pc \in {"files", "files_drain", "files_item"} /\ item.name # "") =>
        /\ item.name_size < ItemNameSize - 1
        /\ enc_offset + item.name_offset + item.name_size <= total_size

\* C23 (amended): download_files accepts an entry if and only if
\* name_size <= sizeof(item_name) - 1 and enc_offset + name_offset + name_size
\* <= total_size; any other entry raises "pkg too small or corrupt" with the
\* name not copied, nothing read and nothing written (for every entry whose
\* record the read out of the head buffer delivered).
C23_NameBound ==
    [][(/\ pc = "files" /\ index < index_count /\ canceled' = canceled
        /\ outcome' # "undefined") =>
          \E rec \in IndexRecords(index) :
             IF /\ rec.name_size <= ItemNameSize - 1
                /\ enc_offset + rec.name_offset + rec.name_size <= total_size
             THEN item' = rec /\ item_name' \in ItemNames(rec)
             ELSE /\ pc' = "done" /\ outcome' = "error"
                  /\ err' = "pkg too small or corrupt"
                  /\ item' = item /\ item_name' = item_name
                  /\ download_offset' = download_offset
                  /\ disk' = disk]_vars

\* an entry whose name fills item_name up to its last byte is being read
C23_Witness ==
    /\ pc = "files_item" /\ index = 0
    /\ item.name_size = ItemNameSize - 1
    /\ item_name = "a.bin" /\ disk["a.bin"].kind = "file"

\* the index of the entry download_files read last
LastRead == IF pc = "files" THEN index - 1 ELSE index

\* C24 (as claimed): the index record and the name that download_files read
\* for an entry it accepted lie within the bytes download_head buffered,
\* [0, head_size).
C24_FilesReadsBuffered ==
    (pc \in {"files", "files_drain", "files_item"} /\ LastRead >= 0) =>
        /\ Buffered(enc_offset + ItemRecSize * LastRead, ItemRecSize)
        /\ Buffered(enc_offset + item.name_offset, item.name_size)

====
